---- MODULE Spec2Model ----
(***************************************************************************)
(* SparseAddressSpace<T_addr>: a sparse byte-addressable memory made of    *)
(* coalesced segments kept in an interval tree, with an MRU segment slot   *)
(* and a nested initialization store that reset() copies into live memory. *)
(*                                                                         *)
(* Segments are heap objects held by shared_ptr: `heap` maps an object id  *)
(* to its fields, the trees and MRU slots hold ids, and an object lives as *)
(* long as an id refers to it.  T_addr is a small unsigned type narrower   *)
(* than int, so the address arithmetic is done in int / LargeInt without   *)
(* wrap-around, as it is for uint8_t and uint16_t.                         *)
(***************************************************************************)
EXTENDS Integers, Sequences, FiniteSets, TLC

\* Bits of a byte, scaled down from CHAR_BIT so that a whole value fits an integer.
CharBit == 4
\* sizeof(T_v) of the values the tests write and read (uint32_t).
SizeofValue == 4
\* Number of values of a byte, and of a T_v.
ByteRange == 2 ^ CharBit
ValueRange == ByteRange ^ SizeofValue

\* Largest address of the scaled-down T_addr (numeric_limits<T_addr>::max()).
c_maxAddr == 4
\* Number of API calls in one behaviour.
MaxOps == 3

Addr == 0..c_maxAddr
\* Lengths of the byte vectors a caller passes to insertSegment; the longer ones
\* run past c_maxAddr when they start near the top.
Lens == {1, 3}
\* Lengths of the segments added to the initialization store.
InitLens == {2}
\* Constructor arguments: odd and at least 3 (the asserts of the constructor).
MinSegSizes == {3}
\* m_minSegSize of the nested store: make_unique<SAS>() takes the default.
DefaultMinSegSize == 5

\* Byte values.  The code never inspects a byte, it only copies bytes, so the
\* bytes a caller supplies are tagged with the call that supplied them and their
\* place in it: any two supplied bytes differ, and both differ from the zero of
\* a lazily created segment.
Tag(call, i) == 10 * (call + 1) + i

NULL == 0

VARIABLES
    heap,           \* shared Segment objects: id -> [start, data]
    data,           \* live interval tree: set of [start, stop, value]
    m_mruSegment,   \* MRU slot of the live store: an id or NULL
    m_minSegSize,   \* minimum segment size of the live store
    m_initData,     \* unique_ptr<SAS>: <<>> or <<nested store>>
    last,           \* the call that led to this state, with its result
    steps,          \* calls made so far
    fuzz            \* the fuzz test: buffer size, indices written in order, reads done

vars == <<heap, data, m_mruSegment, m_minSegSize, m_initData, last, steps, fuzz>>

----------------------------------------------------------------------------
\* Segment

end(s) == s.start + Len(s.data) - 1

containsSeg(s, other) == s.start <= other.start /\ end(s) >= end(other)

containsAddr(s, addr) == s.start <= addr /\ addr <= end(s)

\* toInterval with the interval ending at end() instead of one past it.
toInterval_inclusiveStop(h, id) ==
    [start |-> h[id].start,
     stop  |-> IF end(h[id]) > c_maxAddr THEN c_maxAddr ELSE end(h[id]),
     value |-> id]

toInterval(h, id) ==
    LET realEnd == end(h[id]) + 1
    IN  [start |-> h[id].start,
         stop  |-> IF realEnd > c_maxAddr THEN c_maxAddr ELSE realEnd,
         value |-> id]

----------------------------------------------------------------------------
\* IntervalTree<LargeInt, SegSPtr>: closed intervals [start, stop].

findOverlapping(tree, a, b) == {i \in tree : i.stop >= a /\ i.start <= b}

findContained(tree, a, b) == {i \in tree : i.start >= a /\ i.stop <= b}

\* The order in which visit_all and the query results hand out intervals.
RECURSIVE visitOrder(_)
visitOrder(tree) ==
    IF tree = {} THEN <<>>
    ELSE LET i == CHOOSE x \in tree :
                    \A y \in tree : x.start < y.start
                                    \/ (x.start = y.start /\ x.value <= y.value)
         IN  <<i>> \o visitOrder(tree \ {i})

----------------------------------------------------------------------------
\* A store: the fields of one SparseAddressSpace object.

NewId(h) == CHOOSE n \in 1..(Cardinality(DOMAIN h) + 1) : n \notin DOMAIN h

Alloc(h, id, seg) == [k \in DOMAIN h \cup {id} |-> IF k = id THEN seg ELSE h[k]]

ZeroData(n) == [i \in 1..n |-> 0]

\* coalesce taking the lower bytes from the end of s1 instead of its beginning.
coalesce_lowerFromEnd(s1, s2) ==
    IF containsSeg(s2, s1) THEN s2
    ELSE LET coalesce_lower_bytes == s2.start - s1.start
             lo == IF coalesce_lower_bytes > 0
                   THEN [start |-> s1.start,
                         data  |-> SubSeq(s1.data, Len(s1.data) - coalesce_lower_bytes + 1,
                                          Len(s1.data)) \o s2.data]
                   ELSE s2
             coalesce_upper_bytes == end(s1) - end(lo)
         IN  IF coalesce_upper_bytes > 0
             THEN [lo EXCEPT !.data =
                        @ \o SubSeq(s1.data, Len(s1.data) - coalesce_upper_bytes + 1,
                                    Len(s1.data))]
             ELSE lo

coalesce(s1, s2) ==
    IF containsSeg(s2, s1) THEN s2
    ELSE LET coalesce_lower_bytes == s2.start - s1.start
             lo == IF coalesce_lower_bytes > 0
                   THEN [start |-> s1.start,
                         data  |-> SubSeq(s1.data, 1, coalesce_lower_bytes) \o s2.data]
                   ELSE s2
             coalesce_upper_bytes == end(s1) - end(lo)
         IN  IF coalesce_upper_bytes > 0
             THEN [lo EXCEPT !.data =
                        @ \o SubSeq(s1.data, Len(s1.data) - coalesce_upper_bytes + 1,
                                    Len(s1.data))]
             ELSE lo

\* edges probing the last address of the new segment instead of the one after it.
edges_lastAddress(segment) == <<segment.start, end(segment)>>

\* edges without the probe one past the end of the new segment.
edges_startOnly(segment) == <<segment.start, segment.start>>

\* The two addresses insertSegment probes for segments to coalesce.
edges(segment) == <<segment.start, end(segment) + 1>>

\* for (auto& i : overlaps) coalesce(*i.value, segment);
RECURSIVE coalesceAll(_, _, _)
coalesceAll(h, overlaps, segment) ==
    IF overlaps = <<>> THEN segment
    ELSE coalesceAll(h, Tail(overlaps), coalesce(h[Head(overlaps).value], segment))

setMRUSeg(s, ptr) == IF s.m_mruSegment # ptr THEN [s EXCEPT !.m_mruSegment = ptr] ELSE s

\* insertSegment that coalesces the segments found at the edges and keeps them.
insertSegment_keepsCoalesced(h, s, segment) ==
    IF Len(segment.data) = 0 THEN [heap |-> h, sas |-> s]
    ELSE LET segmentsToKeep == {i.value : i \in s.data}
             contained == findContained(s.data, segment.start, end(segment))
             e  == edges(segment)
             o1 == findOverlapping(s.data, e[1], e[1])
             s1 == coalesceAll(h, visitOrder(o1), segment)
             o2 == findOverlapping(s.data, e[2], e[2])
             s2 == coalesceAll(h, visitOrder(o2), s1)
             keep == segmentsToKeep \ {i.value : i \in contained}
             id == NewId(h)
             h2 == Alloc(h, id, s2)
         IN  [heap |-> h2,
              sas  |-> setMRUSeg([s EXCEPT !.data = {toInterval(h2, k) : k \in keep \cup {id}}],
                                 id)]

\* insertSegment that does not drop the segments the new one fully contains.
insertSegment_keepsContained(h, s, segment) ==
    IF Len(segment.data) = 0 THEN [heap |-> h, sas |-> s]
    ELSE LET segmentsToKeep == {i.value : i \in s.data}
             e  == edges(segment)
             o1 == findOverlapping(s.data, e[1], e[1])
             s1 == coalesceAll(h, visitOrder(o1), segment)
             o2 == findOverlapping(s.data, e[2], e[2])
             s2 == coalesceAll(h, visitOrder(o2), s1)
             keep == segmentsToKeep \ {i.value : i \in o1 \cup o2}
             id == NewId(h)
             h2 == Alloc(h, id, s2)
         IN  [heap |-> h2,
              sas  |-> setMRUSeg([s EXCEPT !.data = {toInterval(h2, k) : k \in keep \cup {id}}],
                                 id)]

\* insertSegment(startaddr, data): a fresh Segment object, coalesced and indexed.
insertSegment(h, s, segment) ==
    IF Len(segment.data) = 0 THEN [heap |-> h, sas |-> s]
    ELSE LET segmentsToKeep == {i.value : i \in s.data}
             contained == findContained(s.data, segment.start, end(segment))
             e  == edges(segment)
             o1 == findOverlapping(s.data, e[1], e[1])
             s1 == coalesceAll(h, visitOrder(o1), segment)
             o2 == findOverlapping(s.data, e[2], e[2])
             s2 == coalesceAll(h, visitOrder(o2), s1)
             keep == segmentsToKeep \ {i.value : i \in contained \cup o1 \cup o2}
             id == NewId(h)
             h2 == Alloc(h, id, s2)
         IN  [heap |-> h2,
              sas  |-> setMRUSeg([s EXCEPT !.data = {toInterval(h2, k) : k \in keep \cup {id}}],
                                 id)]

\* contains trusting the index hit without asking the segment.
contains_trustsIndex(h, s, address) ==
    LET overlapping == visitOrder(findOverlapping(s.data, address, address))
    IN  IF Len(overlapping) = 0 THEN NULL ELSE overlapping[1].value

contains(h, s, address) ==
    LET overlapping == visitOrder(findOverlapping(s.data, address, address))
    IN  IF Len(overlapping) = 0 THEN NULL
        ELSE LET seg == overlapping[1].value
             IN  IF containsAddr(h[seg], address) THEN seg ELSE NULL

\* createMissingSegment that does not move the window above the lower neighbour.
createMissingSegment_overLower(h, s, addr) ==
    LET uppers == {i \in s.data : i.start > addr}
        half == s.m_minSegSize \div 2
        centered == addr - half
        adjustStart == IF centered < 0 THEN -centered ELSE 0
        newstart == centered + adjustStart
        stop2 == addr + half + 1 + adjustStart
        upperStart == CHOOSE x \in {i.start : i \in uppers} : \A i \in uppers : x <= i.start
        stop3 == IF uppers # {} /\ upperStart <= stop2 THEN upperStart ELSE stop2
        newstop == IF stop3 > c_maxAddr THEN c_maxAddr + 1 ELSE stop3
        segsize == newstop - newstart
    IN  insertSegment(h, s, [start |-> newstart, data |-> ZeroData(segsize)])

\* missingSegment whose end does not follow the start moved up to address 0.
missingSegment_stopNotShifted(s, addr) ==
    LET lowers == {i \in s.data : i.stop <= addr}
        uppers == {i \in s.data : i.start > addr}
        half == s.m_minSegSize \div 2
        centered == addr - half
        adjustStart == IF centered < 0 THEN -centered ELSE 0
        start1 == centered + adjustStart
        stop1 == addr + half + 1
        lowerStop == CHOOSE x \in {i.stop : i \in lowers} : \A i \in lowers : i.stop <= x
        truncate == lowers # {} /\ lowerStop >= start1
        newstart == IF truncate THEN lowerStop ELSE start1
        stop2 == IF truncate THEN stop1 + (lowerStop - start1) ELSE stop1
        upperStart == CHOOSE x \in {i.start : i \in uppers} : \A i \in uppers : x <= i.start
        stop3 == IF uppers # {} /\ upperStart <= stop2 THEN upperStart ELSE stop2
        newstop == IF stop3 > c_maxAddr THEN c_maxAddr + 1 ELSE stop3
        segsize == newstop - newstart
    IN  [start |-> newstart, data |-> ZeroData(segsize)]

\* missingSegment that does not stop below the upper neighbour.
missingSegment_overUpper(s, addr) ==
    LET lowers == {i \in s.data : i.stop <= addr}
        uppers == {i \in s.data : i.start > addr}
        half == s.m_minSegSize \div 2
        centered == addr - half
        adjustStart == IF centered < 0 THEN -centered ELSE 0
        start1 == centered + adjustStart
        stop1 == addr + half + 1 + adjustStart
        lowerStop == CHOOSE x \in {i.stop : i \in lowers} : \A i \in lowers : i.stop <= x
        truncate == lowers # {} /\ lowerStop >= start1
        newstart == IF truncate THEN lowerStop ELSE start1
        stop2 == IF truncate THEN stop1 + (lowerStop - start1) ELSE stop1
        upperStart == CHOOSE x \in {i.start : i \in uppers} : \A i \in uppers : x <= i.start
        stop3 == stop2
        newstop == IF stop3 > c_maxAddr THEN c_maxAddr + 1 ELSE stop3
        segsize == newstop - newstart
    IN  [start |-> newstart, data |-> ZeroData(segsize)]

\* The zero-initialized segment createMissingSegment makes for addr: newstart,
\* newstop and segsize as computed from the neighbours in the index.
missingSegment(s, addr) ==
    LET lowers == {i \in s.data : i.stop <= addr}
        uppers == {i \in s.data : i.start > addr}
        half == s.m_minSegSize \div 2
        centered == addr - half
        adjustStart == IF centered < 0 THEN -centered ELSE 0
        start1 == centered + adjustStart
        stop1 == addr + half + 1 + adjustStart
        lowerStop == CHOOSE x \in {i.stop : i \in lowers} : \A i \in lowers : i.stop <= x
        truncate == lowers # {} /\ lowerStop >= start1
        newstart == IF truncate THEN lowerStop ELSE start1
        stop2 == IF truncate THEN stop1 + (lowerStop - start1) ELSE stop1
        upperStart == CHOOSE x \in {i.start : i \in uppers} : \A i \in uppers : x <= i.start
        stop3 == IF uppers # {} /\ upperStart <= stop2 THEN upperStart ELSE stop2
        newstop == IF stop3 > c_maxAddr THEN c_maxAddr + 1 ELSE stop3
        segsize == newstop - newstart
    IN  [start |-> newstart, data |-> ZeroData(segsize)]

createMissingSegment(h, s, addr) == insertSegment(h, s, missingSegment(s, addr))

\* segmentForAddress that allocates on every MRU miss, without asking the index.
RECURSIVE segmentForAddress_skipsIndex(_, _, _, _)
segmentForAddress_skipsIndex(h, s, addr, retries) ==
    IF s.m_mruSegment # NULL /\ containsAddr(h[s.m_mruSegment], addr)
    THEN [heap |-> h, sas |-> setMRUSeg(s, s.m_mruSegment), seg |-> s.m_mruSegment,
          created |-> 0]
    ELSE IF retries = 0
    THEN [heap |-> h, sas |-> s, seg |-> NULL, created |-> 0]
    ELSE LET c == createMissingSegment(h, s, addr)
             r == segmentForAddress_skipsIndex(c.heap, c.sas, addr, retries - 1)
         IN  [r EXCEPT !.created = @ + 1]

\* The result of segmentForAddress: the stores as it leaves them, the segment
\* it returns (NULL when the retry does not end) and whether it allocated.
RECURSIVE segmentForAddress(_, _, _, _)
segmentForAddress(h, s, addr, retries) ==
    IF s.m_mruSegment # NULL /\ containsAddr(h[s.m_mruSegment], addr)
    THEN [heap |-> h, sas |-> setMRUSeg(s, s.m_mruSegment), seg |-> s.m_mruSegment,
          created |-> 0]
    ELSE IF contains(h, s, addr) # NULL
    THEN [heap |-> h, sas |-> s, seg |-> contains(h, s, addr), created |-> 0]
    ELSE IF retries = 0
    THEN [heap |-> h, sas |-> s, seg |-> NULL, created |-> 0]
    ELSE LET c == createMissingSegment(h, s, addr)
             r == segmentForAddress(c.heap, c.sas, addr, retries - 1)
         IN  [r EXCEPT !.created = @ + 1]

\* Calls of createMissingSegment followed before a lookup counts as not ending.
MaxRetries == 2

\* writeByte indexing the segment by the address instead of the offset into it.
writeByte_noOffset(h, s, byteAddress, value) ==
    LET r == segmentForAddress(h, s, byteAddress, MaxRetries)
        wridx == byteAddress % Len(r.heap[r.seg].data)
    IN  [heap |-> [r.heap EXCEPT ![r.seg].data[wridx + 1] = value],
         sas |-> r.sas, seg |-> r.seg, created |-> r.created]

writeByte(h, s, byteAddress, value) ==
    LET r == segmentForAddress(h, s, byteAddress, MaxRetries)
        wridx == byteAddress - r.heap[r.seg].start
    IN  [heap |-> [r.heap EXCEPT ![r.seg].data[wridx + 1] = value],
         sas |-> r.sas, seg |-> r.seg, created |-> r.created]

readByte(h, s, address) ==
    LET r == segmentForAddress(h, s, address, MaxRetries)
        rdidx == address - r.heap[r.seg].start
    IN  [heap |-> r.heap, sas |-> r.sas, seg |-> r.seg, created |-> r.created,
         ret |-> r.heap[r.seg].data[rdidx + 1]]

\* address++ on a T_addr: unsigned, so the top address is followed by 0.
NextAddr(a) == (a + 1) % (c_maxAddr + 1)

\* The loop of writeValue from round i on: writeByte takes the low byte of
\* value (the conversion to uint8_t), then value >>= CHAR_BIT.  created counts
\* the segments allocated so far; each byte write is bound once, as w.
RECURSIVE writeValueLoop(_, _, _, _, _, _, _)
writeValueLoop(h, s, byteAddress, value, i, nbytes, created) ==
    IF i >= nbytes THEN [heap |-> h, sas |-> s, created |-> created, threw |-> FALSE]
    ELSE CHOOSE out \in
             {writeValueLoop(w.heap, w.sas, NextAddr(byteAddress), value \div ByteRange,
                             i + 1, nbytes, created + w.created) :
                  w \in {writeByte(h, s, byteAddress, value % ByteRange)}} : TRUE

\* writeValue that writes the bytes it has when asked for more.
writeValue_truncates(h, s, byteAddress, value, nbytes) ==
    writeValueLoop(h, s, byteAddress, value, 0,
                   IF nbytes > SizeofValue THEN SizeofValue ELSE nbytes, 0)

\* writeValue(byteAddress, value, nbytes); threw: the runtime_error was thrown.
writeValue(h, s, byteAddress, value, nbytes) ==
    IF nbytes > SizeofValue
    THEN [heap |-> h, sas |-> s, created |-> 0, threw |-> TRUE]
    ELSE writeValueLoop(h, s, byteAddress, value, 0, nbytes, 0)

\* readByte(address) << (i * CHAR_BIT), kept within T_v.  A byte is below
\* ByteRange, so the byte fields of a value do not overlap and the bitwise or of
\* a field into zero bits adds it.
Shifted(byte, i) == ((byte % ByteRange) * (ByteRange ^ i)) % ValueRange

\* The loop of readValue from round i on: value |= readByte(address++) << (i *
\* CHAR_BIT); each byte read is bound once, as b.
RECURSIVE readValueLoop(_, _, _, _, _, _)
readValueLoop(h, s, address, i, value, created) ==
    IF i >= SizeofValue THEN [heap |-> h, sas |-> s, created |-> created, ret |-> value]
    ELSE CHOOSE out \in
             {readValueLoop(b.heap, b.sas, NextAddr(address), i + 1,
                            value + Shifted(b.ret, i), created + b.created) :
                  b \in {readByte(h, s, address)}} : TRUE

\* readValue<T_v>(address)
readValue(h, s, address) == readValueLoop(h, s, address, 0, 0, 0)

\* clear() of a store without a nested store (the nested store itself).
clearData(s) == [s EXCEPT !.data = {}]

\* clear() that leaves the init store alone.
clear_liveOnly(s, init) == [sas |-> clearData(s), init |-> init]

\* clear(): the live index is replaced by an empty one and the init store,
\* when there is one, is cleared the same way.
clear(s, init) ==
    [sas |-> clearData(s),
     init |-> IF init = <<>> THEN <<>> ELSE <<clearData(init[1])>>]

\* insertSegment(*segCopyPtr) for every interval of the initialization tree.
RECURSIVE copyAll(_, _, _)
copyAll(h, s, intervals) ==
    IF intervals = <<>> THEN [heap |-> h, sas |-> s]
    ELSE LET r == insertSegment(h, s, h[Head(intervals).value])
         IN  copyAll(r.heap, r.sas, Tail(intervals))

\* reset without dropping the live tree first.
reset_keepsLive(h, s, init) ==
    IF init = <<>> THEN [heap |-> h, sas |-> s]
    ELSE copyAll(h, s, visitOrder(init[1].data))

\* reset indexing the initialization store's own Segment objects, not copies.
reset_sharesSegments(h, s, init) ==
    IF init = <<>> THEN [heap |-> h, sas |-> clearData(s)]
    ELSE [heap |-> h, sas |-> [s EXCEPT !.data = init[1].data]]

reset(h, s, init) ==
    IF init = <<>> THEN [heap |-> h, sas |-> clearData(s)]
    ELSE copyAll(h, clearData(s), visitOrder(init[1].data))

getInitSas(init) ==
    IF init = <<>>
    THEN <<[data |-> {}, m_mruSegment |-> NULL, m_minSegSize |-> DefaultMinSegSize]>>
    ELSE init

\* The segment inserted into the store itself instead of the nested store.
addInitSegment_intoLive(h, s, init, segment) ==
    LET r == insertSegment(h, s, segment)
    IN  [heap |-> r.heap, sas |-> r.sas, init |-> getInitSas(init)]

\* getInitSas().insertSegment(startaddr, data): the segment goes to the nested
\* store, which is created on first use.
addInitSegment(h, s, init, segment) ==
    LET r == insertSegment(h, getInitSas(init)[1], segment)
    IN  [heap |-> r.heap, sas |-> s, init |-> <<r.sas>>]

\* segments(): the segments of a tree, as (start, bytes) values.
segments(h, tree) == {h[i.value] : i \in tree}

----------------------------------------------------------------------------
\* The state machine: one action per public call.

Live == [data |-> data, m_mruSegment |-> m_mruSegment, m_minSegSize |-> m_minSegSize]

\* Objects some shared_ptr still refers to.
Refs(s, init) ==
    ({i.value : i \in s.data} \cup {s.m_mruSegment}
        \cup (IF init = <<>> THEN {}
              ELSE {i.value : i \in init[1].data} \cup {init[1].m_mruSegment}))
    \ {NULL}

Release(h, s, init) == [k \in DOMAIN h \cap Refs(s, init) |-> h[k]]

\* The record of a call: its arguments and results, and the store before it.
CallN(op, addr, value, ret, created, seg, nbytes) ==
    [op |-> op, addr |-> addr, value |-> value, ret |-> ret, created |-> created,
     seg |-> seg, nbytes |-> nbytes, pre |-> segments(heap, data),
     preMru |-> m_mruSegment,
     preInit |-> IF m_initData = <<>> THEN {} ELSE segments(heap, m_initData[1].data)]

Call(op, addr, value, ret, created, seg) == CallN(op, addr, value, ret, created, seg, 0)

NoSeg == [start |-> 0, data |-> <<>>]

\* The segment a byte access at addr handed to insertSegment: the one
\* createMissingSegment makes in the store as the call found it, if it ran.
Allocated(addr, created) == IF created >= 1 THEN missingSegment(Live, addr) ELSE NoSeg

\* The live fields and the heap after a call on the live store.
Commit(r, init) ==
    /\ data' = r.sas.data
    /\ m_mruSegment' = r.sas.m_mruSegment
    /\ m_initData' = init
    /\ heap' = Release(r.heap, r.sas, init)
    /\ steps' = steps + 1
    /\ UNCHANGED m_minSegSize

\* The segments a caller can pass in its next call.
SegmentInputs(lens) ==
    {[start |-> a, data |-> [i \in 1..n |-> Tag(steps, i)]] : a \in Addr, n \in lens}

\* The byte a caller can write in its next call.
ByteInputs == {Tag(steps, 0)}

Init ==
    /\ heap = <<>>
    /\ data = {}
    /\ m_mruSegment = NULL
    /\ m_minSegSize \in MinSegSizes
    /\ m_initData = <<>>
    /\ last = [op |-> "new", addr |-> 0, value |-> 0, ret |-> 0, created |-> 0,
               seg |-> NoSeg, nbytes |-> 0, pre |-> {}, preMru |-> NULL,
               preInit |-> {}]
    /\ steps = 0
    /\ fuzz = [n |-> 0, written |-> <<>>, read |-> 0]

InsertSegment ==
    /\ steps < MaxOps
    /\ UNCHANGED fuzz
    /\ \E segment \in SegmentInputs(Lens) :
        /\ Commit(insertSegment(heap, Live, segment), m_initData)
        /\ last' = Call("insertSegment", segment.start, 0, 0, 0, segment)

WriteByte ==
    /\ steps < MaxOps
    /\ UNCHANGED fuzz
    /\ \E a \in Addr, v \in ByteInputs :
        LET r == writeByte(heap, Live, a, v)
        IN  /\ Commit(r, m_initData)
            /\ last' = Call("writeByte", a, v, 0, r.created, Allocated(a, r.created))

ReadByte ==
    /\ steps < MaxOps
    /\ UNCHANGED fuzz
    /\ \E a \in Addr :
        LET r == readByte(heap, Live, a)
        IN  /\ Commit(r, m_initData)
            /\ last' = Call("readByte", a, 0, r.ret, r.created, Allocated(a, r.created))

Clear ==
    /\ steps < MaxOps
    /\ UNCHANGED fuzz
    /\ LET r == clear(Live, m_initData)
       IN  Commit([heap |-> heap, sas |-> r.sas], r.init)
    /\ last' = Call("clear", 0, 0, 0, 0, NoSeg)

Reset ==
    /\ steps < MaxOps
    /\ UNCHANGED fuzz
    /\ Commit(reset(heap, Live, m_initData), m_initData)
    /\ last' = Call("reset", 0, 0, 0, 0, NoSeg)

\* getInitSas().insertSegment(startaddr, data)
AddInitSegment ==
    /\ steps < MaxOps
    /\ UNCHANGED fuzz
    /\ \E segment \in SegmentInputs(InitLens) :
        LET r == addInitSegment(heap, Live, m_initData, segment)
        IN  /\ Commit(r, r.init)
            /\ last' = Call("addInitSegment", segment.start, 0, 0, 0, segment)

Next ==
    \/ InsertSegment
    \/ WriteByte
    \/ ReadByte
    \/ Clear
    \/ Reset
    \/ AddInitSegment

Spec == Init /\ [][Next]_vars

----------------------------------------------------------------------------
\* Value access: writeValue and readValue next to the calls that make, merge
\* and drop segments.

\* Byte i (0 is the least significant) of value v.
ByteOf(v, i) == (v \div (ByteRange ^ i)) % ByteRange

\* The value a caller writes in its next call: all bytes different, and the top
\* bit set in every other call.
ValueInput ==
    (steps + 1) + (steps + 2) * ByteRange + (steps + 3) * ByteRange ^ 2
        + (IF steps % 2 = 0 THEN ByteRange - 1 - steps ELSE steps + 4) * ByteRange ^ 3

\* nbytes arguments: all of the value, and one byte more than it has.
NBytes == {SizeofValue, SizeofValue + 1}

WriteValue ==
    /\ steps < MaxOps
    /\ UNCHANGED fuzz
    /\ \E a \in Addr, n \in NBytes :
        \E r \in {writeValue(heap, Live, a, ValueInput, n)} :
            /\ Commit(r, m_initData)
            /\ last' = CallN("writeValue", a, ValueInput, IF r.threw THEN 1 ELSE 0,
                             r.created, NoSeg, n)

ReadValue ==
    /\ steps < MaxOps
    /\ UNCHANGED fuzz
    /\ \E a \in Addr :
        \E r \in {readValue(heap, Live, a)} :
            /\ Commit(r, m_initData)
            /\ last' = CallN("readValue", a, 0, r.ret, r.created, NoSeg, SizeofValue)

NextValue ==
    \/ InsertSegment
    \/ WriteValue
    \/ ReadValue
    \/ Clear

SpecValue == Init /\ [][NextValue]_vars

----------------------------------------------------------------------------
\* TEST_CASE("Fuzz test"): every byte of a buffer written once, in any order,
\* then read back in sequence.

FuzzSizes == 1..(c_maxAddr + 1)
FuzzMinSegSizes == {3, 5}
FuzzData(idx) == Tag(idx, 0)

FuzzInit ==
    /\ heap = <<>>
    /\ data = {}
    /\ m_mruSegment = NULL
    /\ m_minSegSize \in FuzzMinSegSizes
    /\ m_initData = <<>>
    /\ last = [op |-> "new", addr |-> 0, value |-> 0, ret |-> 0, created |-> 0,
               seg |-> NoSeg, nbytes |-> 0, pre |-> {}, preMru |-> NULL,
               preInit |-> {}]
    /\ steps = 0
    /\ \E n \in FuzzSizes : fuzz = [n |-> n, written |-> <<>>, read |-> 0]

FuzzWritten == {fuzz.written[k] : k \in 1..Len(fuzz.written)}

FuzzWrite ==
    \E idx \in (0..(fuzz.n - 1)) \ FuzzWritten :
        LET r == writeByte(heap, Live, idx, FuzzData(idx))
        IN  /\ Commit(r, m_initData)
            /\ last' = Call("writeByte", idx, FuzzData(idx), 0, r.created, NoSeg)
            /\ fuzz' = [fuzz EXCEPT !.written = Append(@, idx)]

FuzzRead ==
    /\ FuzzWritten = 0..(fuzz.n - 1)
    /\ fuzz.read < fuzz.n
    /\ LET r == readByte(heap, Live, fuzz.read)
       IN  /\ Commit(r, m_initData)
           /\ last' = Call("readByte", fuzz.read, 0, r.ret, r.created, NoSeg)
           /\ fuzz' = [fuzz EXCEPT !.read = @ + 1]

NextFuzz ==
    \/ FuzzWrite
    \/ FuzzRead

SpecFuzz == FuzzInit /\ [][NextFuzz]_vars

----------------------------------------------------------------------------
\* Properties

LiveSegs == segments(heap, data)

InitSegs == IF m_initData = <<>> THEN {} ELSE segments(heap, m_initData[1].data)

\* The bytes a set of segments holds at an address: empty when no segment
\* covers it, one byte when the segments do not overlap.
BytesAt(segs, a) == {s.data[a - s.start + 1] : s \in {x \in segs : containsAddr(x, a)}}

Disjoint(a, b) == end(a) < b.start \/ end(b) < a.start

Adjacent(a, b) == end(a) + 1 = b.start

\* C1: no two segments of the live store have overlapping inclusive ranges
\* [start, end], after any sequence of calls.
C1_NoOverlap ==
    \A i, j \in data : i.value # j.value => Disjoint(heap[i.value], heap[j.value])

\* An insertSegment that overlapped a live segment and left two or more segments.
C1_Witness ==
    /\ last.op = "insertSegment"
    /\ \E s \in last.pre : ~Disjoint(s, last.seg)
    /\ Cardinality(data) >= 2

\* C2: after every call, the live store holds no two segments A and B with
\* A.end + 1 = B.start, also when one of them reaches the top address, where the
\* stored interval stops at c_maxAddr.
C2_NoAdjacent ==
    \A i, j \in data : ~Adjacent(heap[i.value], heap[j.value])

\* A segment inserted right below a live segment that reaches the top address.
C2_Witness ==
    /\ last.op = "insertSegment"
    /\ \E s \in last.pre : Adjacent(last.seg, s) /\ end(s) = c_maxAddr
    /\ Cardinality(data) = 1

PartialOverlap(s1, s2) ==
    \/ s1.start < s2.start /\ s2.start <= end(s1) /\ end(s1) < end(s2)
    \/ s2.start < s1.start /\ s1.start <= end(s2) /\ end(s2) < end(s1)

\* C3: insertSegment(S2) overrides the live store seen as a map from address to
\* byte: S2's bytes on S2's range, the old bytes elsewhere, nothing else covered;
\* and when S2 partially overlaps the only live segment, one segment is left.
C3_InsertOverrides ==
    last.op = "insertSegment" =>
        /\ \A a \in Addr :
              BytesAt(LiveSegs, a) =
                  IF containsAddr(last.seg, a)
                  THEN {last.seg.data[a - last.seg.start + 1]}
                  ELSE BytesAt(last.pre, a)
        /\ \A s1 \in last.pre :
              last.pre = {s1} /\ PartialOverlap(s1, last.seg) => Cardinality(data) = 1

\* S2 inserted over the upper part of the only live segment S1, whose lower
\* bytes are not all the same.
C3_Witness ==
    /\ last.op = "insertSegment"
    /\ \E s1 \in last.pre :
          /\ last.pre = {s1}
          /\ s1.start + 1 < last.seg.start
          /\ last.seg.start <= end(s1)
          /\ end(s1) < end(last.seg)
          /\ s1.data[1] # s1.data[2]
          /\ end(last.seg) <= c_maxAddr

\* C4: in every reachable state, for every address a and byte v, writeByte(a, v)
\* followed at once by readByte(a) returns v, whether or not a was covered: the
\* state after every writeByte call is one in which readByte of the written
\* address ends and returns the written byte.
C4_WriteThenRead ==
    last.op = "writeByte" =>
        LET r == readByte(heap, Live, last.addr)
        IN  r.seg # NULL /\ r.ret = last.value

\* A writeByte to an unmapped address has happened, next to a live segment, and
\* reading the address back gives the byte.
C4_Witness ==
    /\ last.op = "writeByte"
    /\ last.created = 1
    /\ last.pre # {}
    /\ readByte(heap, Live, last.addr).ret = last.value

\* The live store with an empty MRU slot: every address is resolved through
\* the interval tree.
IndexOnly == [Live EXCEPT !.m_mruSegment = NULL]

\* C5: the MRU slot is a pure performance hint: in every reachable state,
\* readByte of any address returns the byte, and leaves the live segments, that
\* it would with the address resolved through the interval tree only.
C5_MRUIsOnlyAHint ==
    \A a \in Addr :
        LET r == readByte(heap, Live, a)
            x == readByte(heap, IndexOnly, a)
        IN  /\ r.ret = x.ret
            /\ segments(r.heap, r.sas.data) = segments(x.heap, x.sas.data)

\* C6: in every reachable state, readByte of an address that no live segment
\* covers (contains returns nothing) ends and returns 0.
C6_UnmappedReadsZero ==
    \A a \in Addr :
        contains(heap, Live, a) = NULL =>
            LET r == readByte(heap, Live, a)
            IN  r.seg # NULL /\ r.ret = 0

\* C7: after reset(), whatever the live store held before, the live segments
\* are exactly the segments of the initialization store: same starts, same
\* bytes, one live segment for each.
C7_ResetRestoresInit ==
    last.op = "reset" =>
        /\ LiveSegs = InitSegs
        /\ Cardinality(data) = Cardinality(InitSegs)

\* reset() of a live store that held other segments than the initialization
\* store, which holds some.
C7_Witness ==
    /\ last.op = "reset"
    /\ InitSegs # {}
    /\ last.pre # {}
    /\ last.pre # InitSegs

\* C8: no writeByte, readByte or insertSegment on the live store changes the
\* start or the bytes of a segment of the initialization store, also after
\* reset() has copied them into the live store.
C8_LiveCallsKeepInit ==
    last.op \in {"writeByte", "readByte", "insertSegment"} => InitSegs = last.preInit

\* A writeByte to an address inside a segment that reset() copied from the
\* initialization store.
C8_Witness ==
    /\ last.op = "writeByte"
    /\ last.pre = last.preInit
    /\ \E s \in last.preInit : containsAddr(s, last.addr)
    /\ LiveSegs # last.pre

\* C9: adding a segment to the initialization store leaves the live store as it
\* was: segments() returns the same segments, none when there were none.
C9_AddInitKeepsLive ==
    last.op = "addInitSegment" => LiveSegs = last.pre

\* A segment added to the initialization store while the live store holds one.
C9_Witness ==
    /\ last.op = "addInitSegment"
    /\ last.pre # {}
    /\ InitSegs # {}

Touches(s, seg) == ~Disjoint(s, seg) \/ Adjacent(s, seg) \/ Adjacent(seg, s)

\* C11: insertSegment(S2) with S2's range containing the range of a live
\* segment S1 (same start, same end, both, or neither), S1 being the only live
\* segment S2 touches, replaces S1 by S2 as inserted: when S1 was the only
\* segment, the store holds exactly one segment, with S2's start and bytes.
C11_ContainedIsReplaced ==
    last.op = "insertSegment" =>
        \A s1 \in last.pre :
            (/\ containsSeg(last.seg, s1)
             /\ \A s \in last.pre \ {s1} : ~Touches(s, last.seg))
            => /\ LiveSegs = (last.pre \ {s1}) \cup {last.seg}
               /\ Cardinality(data) = Cardinality(last.pre)

\* The only live segment lay strictly inside the inserted one.
C11_Witness ==
    /\ last.op = "insertSegment"
    /\ \E s1 \in last.pre :
          /\ last.pre = {s1}
          /\ last.seg.start < s1.start
          /\ end(s1) < end(last.seg)
    /\ LiveSegs = {last.seg}

\* The only live segment had the start and the end of the inserted one.
C11_WitnessSameRange ==
    /\ last.op = "insertSegment"
    /\ \E s1 \in last.pre :
          /\ last.pre = {s1}
          /\ last.seg.start = s1.start
          /\ end(s1) = end(last.seg)
    /\ LiveSegs = {last.seg}

\* The single segment made of lo followed by hi.
Joined(lo, hi) == [start |-> lo.start, data |-> lo.data \o hi.data]

\* C12: insertSegment(S2) with S2.start = S1.end + 1 or S2.end + 1 = S1.start
\* for a live S1 (the only live segment S2 touches) leaves one segment in place
\* of the two, spanning both ranges with each one's bytes in its own range; S1
\* may itself be the result of such a merge, so a segment inserted on each side
\* in turn gives one segment over all three. A segment inserted into the gap
\* between two live segments, adjacent to both, gives one segment over the three.
C12_AdjacentIsMerged ==
    last.op = "insertSegment" =>
        /\ \A s1 \in last.pre :
              (\A s \in last.pre \ {s1} : ~Touches(s, last.seg)) =>
                  /\ Adjacent(s1, last.seg) =>
                        LiveSegs = (last.pre \ {s1}) \cup {Joined(s1, last.seg)}
                  /\ Adjacent(last.seg, s1) =>
                        LiveSegs = (last.pre \ {s1}) \cup {Joined(last.seg, s1)}
        /\ \A lo, hi \in last.pre :
              (/\ Adjacent(lo, last.seg)
               /\ Adjacent(last.seg, hi)
               /\ \A s \in last.pre \ {lo, hi} : ~Touches(s, last.seg))
              => LiveSegs = (last.pre \ {lo, hi}) \cup {Joined(Joined(lo, last.seg), hi)}

\* A segment inserted above the only live segment, which an earlier insert had
\* extended downwards: one segment with the bytes of the three inserts in order.
C12_Witness ==
    /\ last.op = "insertSegment"
    /\ \E s1 \in last.pre :
          /\ last.pre = {s1}
          /\ Adjacent(s1, last.seg)
          /\ Len(s1.data) = 2
          /\ s1.data[1] > s1.data[2]
          /\ LiveSegs = {Joined(s1, last.seg)}

\* A segment inserted into the one-address gap between two live segments.
C12_WitnessGap ==
    /\ last.op = "insertSegment"
    /\ \E lo, hi \in last.pre : Adjacent(lo, last.seg) /\ Adjacent(last.seg, hi)
    /\ Cardinality(data) = 1

\* Address a + i in the arithmetic of T_addr.
AddrPlus(a, i) == (a + i) % (c_maxAddr + 1)

\* C13: after writeValue(a, x) of a whole value, byte i of x (least significant
\* first) is the byte of the live store at address a + i for every i below
\* sizeof(x), and readValue at a returns x, whether or not the top bit of x is
\* set and whether the addresses were in one segment or partly unmapped.
C13_ValueRoundTrip ==
    (last.op = "writeValue" /\ last.nbytes = SizeofValue) =>
        /\ \A i \in 0..(SizeofValue - 1) :
              BytesAt(LiveSegs, AddrPlus(last.addr, i)) = {ByteOf(last.value, i)}
        /\ readValue(heap, Live, last.addr).ret = last.value

\* C14: writeValue(a, x, n) with n above sizeof(x) throws and writes nothing:
\* the live segments with their bytes and the MRU slot are as they were before
\* the call.
C14_TooWideWritesNothing ==
    (last.op = "writeValue" /\ last.nbytes > SizeofValue) =>
        /\ last.ret = 1
        /\ last.created = 0
        /\ LiveSegs = last.pre
        /\ m_mruSegment = last.preMru

\* A too wide writeValue at an address with no segment, next to a live segment.
C14_Witness ==
    /\ last.op = "writeValue"
    /\ last.nbytes > SizeofValue
    /\ last.ret = 1
    /\ LiveSegs # {}
    /\ BytesAt(LiveSegs, last.addr) = {}

\* C15: in every reachable state and for every address a, segmentForAddress(a)
\* ends and returns a segment containing a; when no live segment covers a it
\* calls createMissingSegment exactly once and the lookup after it finds a
\* covered by the returned segment; when a is covered it allocates nothing.
C15_LookupCreatesOnce ==
    \A a \in Addr :
        LET r == segmentForAddress(heap, Live, a, MaxRetries)
        IN  /\ r.seg # NULL
            /\ containsAddr(r.heap[r.seg], a)
            /\ r.created = (IF BytesAt(LiveSegs, a) = {} THEN 1 ELSE 0)
            /\ contains(r.heap, r.sas, a) = r.seg

\* C16: in every reachable state every live segment ends at or below the top
\* address: start + length - 1 <= c_maxAddr, after lazy allocation near the top
\* and after insertSegment of a segment whose start plus length is above it.
C16_SegmentsEndInRange ==
    \A s \in LiveSegs : end(s) <= c_maxAddr

\* C17: contains(a), a query that assigns nothing, returns a segment exactly
\* when a live segment's inclusive range [start, end] covers a, and then that
\* segment; for a = S.end + 1 with no segment covering a it returns nothing
\* although the index, whose intervals stop one past the end, reports S.
C17_ContainsIsExact ==
    \A a \in Addr :
        LET c == contains(heap, Live, a)
            covering == {i.value : i \in {j \in data : containsAddr(heap[j.value], a)}}
        IN  IF covering = {} THEN c = NULL ELSE c \in covering

\* An address one past the end of a live segment: the index reports the
\* segment and contains returns nothing.
C17_Witness ==
    \E i \in data :
        LET a == end(heap[i.value]) + 1
        IN  /\ a \in Addr
            /\ i \in findOverlapping(data, a, a)
            /\ contains(heap, Live, a) = NULL
            /\ contains(heap, Live, a - 1) = i.value

\* The live segments a reset() from the current state would leave.
AfterReset ==
    LET r == reset(heap, Live, m_initData)
    IN  segments(r.heap, r.sas.data)

\* C18 as stated: clear() drops the live segments and leaves the init store
\* as it was, so that a reset() after it restores the init image.
C18_ClearKeepsInit ==
    last.op = "clear" =>
        /\ LiveSegs = {}
        /\ InitSegs = last.preInit
        /\ AfterReset = last.preInit

\* C18, amended: clear() drops the live segments and the segments of the init
\* store as well (the init store itself stays); a reset() after it leaves the
\* live store empty.
C18_ClearDropsInitToo ==
    last.op = "clear" =>
        /\ LiveSegs = {}
        /\ InitSegs = {}
        /\ AfterReset = {}

\* clear() of a store with live segments and with segments in its init store.
C18_Witness ==
    /\ last.op = "clear"
    /\ last.pre # {}
    /\ last.preInit # {}
    /\ m_initData # <<>>

\* The window of width m centred on a, shifted up to start at address 0.
WindowStart(a, m) == IF a - m \div 2 < 0 THEN 0 ELSE a - m \div 2

\* The segment of zeros over [start, start + width - 1] with byte v at a.
ZerosWith(start, width, a, v) ==
    [start |-> start, data |-> [i \in 1..width |-> IF start + i - 1 = a THEN v ELSE 0]]

\* The minimum-size window for a, cut at the top address.
CutWindow(a, m, v) ==
    LET start == WindowStart(a, m)
        stop == IF start + m > c_maxAddr THEN c_maxAddr + 1 ELSE start + m
    IN  ZerosWith(start, stop - start, a, v)

C19_WitnessShifted ==
    /\ last.op = "writeByte"
    /\ last.pre = {}
    /\ last.preMru = NULL
    /\ last.addr = 0
    /\ \E s \in LiveSegs : LiveSegs = {s} /\ Len(s.data) = m_minSegSize /\ s.start = 0

\* C20: the segment createMissingSegment(a) inserts during a read or write of
\* an address a that no live segment covers is not empty, contains a and shares
\* no address with a segment that was live; so the byte at every address
\* covered before is as it was, and the addresses newly covered hold zero (the
\* written byte at a, for a write).
C20_WindowIsFresh ==
    (last.op \in {"readByte", "writeByte"} /\ last.created >= 1) =>
        /\ Len(last.seg.data) > 0
        /\ containsAddr(last.seg, last.addr)
        /\ \A s \in last.pre : Disjoint(s, last.seg)
        /\ \A b \in Addr :
              IF BytesAt(last.pre, b) # {}
              THEN BytesAt(LiveSegs, b) = BytesAt(last.pre, b)
              ELSE /\ BytesAt(LiveSegs, b) \subseteq
                        (IF b = last.addr /\ last.op = "writeByte" THEN {last.value} ELSE {0})
                   /\ BytesAt(LiveSegs, b) # {} <=> containsAddr(last.seg, b)

\* A read of the one uncovered address between two live segments: the window
\* is cut on both sides and the three become one segment.
C20_Witness ==
    /\ last.op = "readByte"
    /\ last.created = 1
    /\ \E lo, hi \in last.pre :
          /\ end(lo) + 1 = last.addr
          /\ hi.start = last.addr + 1
          /\ LiveSegs = {Joined(Joined(lo, ZerosWith(last.addr, 1, last.addr, 0)), hi)}

\* Segment s with the byte at address a replaced by v.
WithByte(s, a, v) == [s EXCEPT !.data[a - s.start + 1] = v]

\* C21: writeByte(a, v) to an address a that a live segment covers changes only
\* the byte at a: the live segments after the call are those before it, same
\* number, starts and lengths, with v at a in the covering segment and every
\* other byte as it was; nothing is allocated.
C21_CoveredWriteChangesOneByte ==
    last.op = "writeByte" =>
        \A s \in last.pre :
            containsAddr(s, last.addr) =>
                /\ LiveSegs = (last.pre \ {s}) \cup {WithByte(s, last.addr, last.value)}
                /\ Cardinality(data) = Cardinality(last.pre)
                /\ last.created = 0

\* A write into the middle of one of two live segments, found through the
\* index while the MRU slot held the other one.
C21_Witness ==
    /\ last.op = "writeByte"
    /\ Cardinality(last.pre) = 2
    /\ \E s \in last.pre :
          /\ s.start < last.addr
          /\ last.addr < end(s)
          /\ \E i \in data : i.value = last.preMru /\ i.start # s.start
          /\ \A b \in Addr \ {last.addr} : BytesAt(LiveSegs, b) = BytesAt(last.pre, b)
          /\ BytesAt(LiveSegs, last.addr) = {last.value}

\* C22: after every readByte or writeByte of an address a, the MRU slot holds
\* the live segment that contains a, also when the call missed the MRU segment
\* and found a through the interval index.
C22_MRUFollowsAccess ==
    last.op \in {"readByte", "writeByte"} =>
        /\ m_mruSegment # NULL
        /\ containsAddr(heap[m_mruSegment], last.addr)
        /\ m_mruSegment \in {i.value : i \in data}

\* C23: in every reachable state the MRU slot is empty or refers to a segment
\* that is in the live interval index, also after clear() and after reset()
\* with no or an empty init store.
C23_MRUIsLive ==
    m_mruSegment = NULL \/ m_mruSegment \in {i.value : i \in data}

\* C24: in every reachable state findOverlapping(a, a) returns at most one
\* interval for every address a, in the live index and in the index of the
\* init store, so the assertion of contains() holds, although the stored
\* intervals are closed and stop one past the end of their segment.
C24_PointQueryIsUnique ==
    \A tree \in {data} \cup (IF m_initData = <<>> THEN {} ELSE {m_initData[1].data}) :
        \A a \in Addr : Cardinality(findOverlapping(tree, a, a)) <= 1

\* Two live segments one address apart: the query at the address between them
\* returns the lower one alone, whose interval stops there.
C24_Witness ==
    \E i, j \in data :
        /\ i.stop + 1 = j.start
        /\ i.stop = end(heap[i.value]) + 1
        /\ findOverlapping(data, i.stop, i.stop) = {i}
        /\ findOverlapping(data, j.start, j.start) = {j}

====
